---------------------------- MODULE Spec2Model ----------------------------
(* A model of esdots (src/esdots.c): the four reporting loops that turn   *)
(* the units of an elementary stream into single-character "dots", and    *)
(* the tail of main that dispatches to them and sets the exit code.       *)
(*                                                                        *)
(* The unit readers (find_next_h262_item, get_next_avs_frame,             *)
(* get_next_h264_frame, find_next_ES_unit) live in other files of the     *)
(* tools; here the input is a finite sequence of already decoded units    *)
(* (`stream`) followed by either EOF or a read error (`ending`).          *)
EXTENDS Integers, Sequences, FiniteSets, TLC

VARIABLES
  want_ES,            \* main: -es was given
  is_data,            \* main: the kind of video data open_input_as_ES found
  max,                \* main: -max <n> (0 when absent)
  verbose,            \* main: -verbose
  hash_eos,           \* main: -hasheos
  stream,             \* the units the reader has still to deliver
  ending,             \* what the reader reports after the last unit
  pc,                 \* where the program is
  err,                \* the value the reporting function returned
  exit_code,          \* the value main returned (-1 while running)
  out,                \* everything printed so far, one entry per printf
  count,              \* `count` of the h262 / avs / ES loops
  frames,             \* `frames` of report_avs_file_as_dots
  dot_frames,         \* the static `frames` of h262_item_dot
  frame_rate,         \* `frame_rate` of report_avs_file_as_dots, <<num, den>>
  access_unit_count,  \* `access_unit_count` of dots_by_access_unit
  nac_count,          \* context->nac->count
  end_of_stream,      \* context->end_of_stream
  no_more_data,       \* context->no_more_data
  fetches,            \* history: calls made to the unit reader
  hist,               \* history: the units the reader has delivered
  first               \* history: what an earlier run on the same input did

vars == << want_ES, is_data, max, verbose, hash_eos, stream, ending, pc, err,
           exit_code, out, count, frames, dot_frames, frame_rate,
           access_unit_count, nac_count, end_of_stream, no_more_data,
           fetches, hist, first >>

--------------------------------------------------------------------------
(* Bounds of the model.                                                   *)

\* longest input stream of the bounded runs
MaxLen == 3
\* largest value given to -max
MaxMax == 3
\* length of the long streams: a unit more than 25*60 pictures and a header
LongLen == 1502

--------------------------------------------------------------------------
(* Names used by the code that are defined in headers outside esdots.c.   *)

VIDEO_H262 == "VIDEO_H262"
VIDEO_H264 == "VIDEO_H264"
VIDEO_AVS == "VIDEO_AVS"

NAL_NON_IDR == "NAL_NON_IDR"
NAL_IDR == "NAL_IDR"

AVS_I_PICTURE_CODING == "AVS_I_PICTURE_CODING"
AVS_P_PICTURE_CODING == "AVS_P_PICTURE_CODING"
AVS_B_PICTURE_CODING == "AVS_B_PICTURE_CODING"

\* what a reader returns at the end of the data
EOF == -1
\* the non-zero, non-EOF values a failing reader may return
ErrCodes == {1, 2}

--------------------------------------------------------------------------
(* What is printed. Each printf is one entry of `out`.                    *)

Item(kind, text, n, m) == [kind |-> kind, text |-> text, n |-> n, m |-> m]

\* a dot: printf of one of the characters of the legend
Glyph(s) == Item("glyph", s, 0, 0)
\* the legend printed by -verbose
Legend(what) == Item("legend", what, 0, 0)
\* "\n%d minute%s\n"
Minute(n) == Item("minute", IF n = 1 THEN "minute" ELSE "minutes", n, 0)
\* "\nStopping because ..."
Stopping(why, n) == Item("stopping", why, n, 0)
\* "\nFound ..."
Found(what, n, m) == Item("found", what, n, m)
\* a "### ..." message
Complaint(text) == Item("complaint", text, 0, 0)


--------------------------------------------------------------------------
(* The units the readers deliver.                                         *)

\* an h262_item: item->unit.start_code and item->picture_coding_type
H262Item(sc, pct) == [start_code |-> sc, picture_coding_type |-> pct]

\* an avs_frame: is_frame, picture_coding_type, start_code, frame_rate_code
AvsFrame(isf, pct, sc, frc) ==
  [is_frame |-> isf, picture_coding_type |-> pct, start_code |-> sc,
   frame_rate_code |-> frc]

\* an access_unit: primary_start (NULL or a NAL unit with nal_ref_idc and
\* nal_unit_type), the slice types of its slices, and what reading it did
\* to the reader's context: the NAL units it counted and whether it met
\* an end-of-stream NAL unit
AccessUnit(prim, ref, type, slices, nals, eos) ==
  [primary_present |-> prim, nal_ref_idc |-> ref, nal_unit_type |-> type,
   slices |-> slices, nals |-> nals, eos |-> eos]

\* an ES_unit: start_code, the byte data[5], and the coding type that
\* avs_picture_coding_type reads out of the unit
ESUnit(sc, d5, apct) == [start_code |-> sc, data5 |-> d5, avs_pct |-> apct]

Byte == 0 .. 255

--------------------------------------------------------------------------
(* unit.data[5] & 0x38) >> 3, on a byte                                   *)
picture_coding_type_of(data5) == ((data5 % 64) - (data5 % 8)) \div 8

(* printf("<%x>", n): lower-case hexadecimal without padding              *)
HexDigit(d) ==
  << "0", "1", "2", "3", "4", "5", "6", "7",
     "8", "9", "a", "b", "c", "d", "e", "f" >>[d + 1]

RECURSIVE HexString(_)
HexString(n) ==
  IF n < 16 THEN HexDigit(n) ELSE HexString(n \div 16) \o HexDigit(n % 16)

HexTag(n) == "<" \o HexString(n) \o ">"

--------------------------------------------------------------------------
(* h262_item_dot: the character for an MPEG-2 item; "" where the function *)
(* returns without printing.                                              *)

\* h262_item_str with the assignment the source has commented out
\* (`str = "."` for slice data) in place of the return
h262_item_str_dotted(item) ==
  CASE item.start_code = 0 ->
         CASE item.picture_coding_type = 1 -> "i"
           [] item.picture_coding_type = 2 -> "p"
           [] item.picture_coding_type = 3 -> "b"
           [] item.picture_coding_type = 4 -> "d"
           [] OTHER -> "x"
    [] item.start_code = 176 -> "R"
    [] item.start_code = 177 -> "R"
    [] item.start_code = 178 -> "U"
    [] item.start_code = 179 -> "["
    [] item.start_code = 180 -> "X"
    [] item.start_code = 181 -> "E"
    [] item.start_code = 182 -> "R"
    [] item.start_code = 183 -> "]"
    [] item.start_code = 184 -> ">"
    [] OTHER ->
         IF item.start_code >= 1 /\ item.start_code <= 175
         THEN "."
         ELSE "?"

h262_item_str(item) ==
  CASE item.start_code = 0 ->
         CASE item.picture_coding_type = 1 -> "i"
           [] item.picture_coding_type = 2 -> "p"
           [] item.picture_coding_type = 3 -> "b"
           [] item.picture_coding_type = 4 -> "d"
           [] OTHER -> "x"
    [] item.start_code = 176 -> "R"
    [] item.start_code = 177 -> "R"
    [] item.start_code = 178 -> "U"
    [] item.start_code = 179 -> "["
    [] item.start_code = 180 -> "X"
    [] item.start_code = 181 -> "E"
    [] item.start_code = 182 -> "R"
    [] item.start_code = 183 -> "]"
    [] item.start_code = 184 -> ">"
    [] OTHER ->
         IF item.start_code >= 1 /\ item.start_code <= 175
         THEN ""
         ELSE "?"

\* the minute line h262_item_dot prints ahead of a picture, given the
\* static counter `frames` before the call
h262_item_minute(item, f) ==
  IF item.start_code = 0 /\ f % (25 * 60) = 0
  THEN << Minute(f \div (25 * 60)) >>
  ELSE << >>

\* the static counter `frames` after the call
h262_item_frames(item, f) == IF item.start_code = 0 THEN f + 1 ELSE f

\* everything one call of h262_item_dot prints
h262_item_dot(item, f) ==
  h262_item_minute(item, f) \o
    (IF h262_item_str(item) = "" THEN << >>
     ELSE << Glyph(h262_item_str(item)) >>)

--------------------------------------------------------------------------
(* report_avs_file_as_dots: the body of the loop.                         *)

\* avs_frame_rate(code), as a fraction <<num, den>> of frames per second
avs_frame_rate(code) ==
  CASE code = 1 -> << 24000, 1001 >>
    [] code = 2 -> << 24, 1 >>
    [] code = 3 -> << 25, 1 >>
    [] code = 4 -> << 30000, 1001 >>
    [] code = 5 -> << 30, 1 >>
    [] code = 6 -> << 50, 1 >>
    [] code = 7 -> << 60000, 1001 >>
    [] code = 8 -> << 60, 1 >>

\* (int)(frame_rate*60)
frames_per_minute(rate) == (rate[1] * 60) \div rate[2]

\* the character (or tag) printed for an AVS unit
\* avs_frame_str with the printf the source has commented out
\* (`printf("?")`) in place of the tag
avs_frame_str_query(avs_frame) ==
  IF avs_frame.is_frame
  THEN CASE avs_frame.picture_coding_type = AVS_I_PICTURE_CODING -> "i"
         [] avs_frame.picture_coding_type = AVS_P_PICTURE_CODING -> "p"
         [] avs_frame.picture_coding_type = AVS_B_PICTURE_CODING -> "b"
         [] OTHER -> "!"
  ELSE IF avs_frame.start_code < 176
  THEN "_"
  ELSE CASE avs_frame.start_code = 176 -> "["
         [] avs_frame.start_code = 177 -> "]"
         [] avs_frame.start_code = 178 -> "U"
         [] avs_frame.start_code = 181 -> "E"
         [] avs_frame.start_code = 183 -> "V"
         [] OTHER -> "?"

avs_frame_str(avs_frame) ==
  IF avs_frame.is_frame
  THEN CASE avs_frame.picture_coding_type = AVS_I_PICTURE_CODING -> "i"
         [] avs_frame.picture_coding_type = AVS_P_PICTURE_CODING -> "p"
         [] avs_frame.picture_coding_type = AVS_B_PICTURE_CODING -> "b"
         [] OTHER -> "!"
  ELSE IF avs_frame.start_code < 176
  THEN "_"
  ELSE CASE avs_frame.start_code = 176 -> "["
         [] avs_frame.start_code = 177 -> "]"
         [] avs_frame.start_code = 178 -> "U"
         [] avs_frame.start_code = 181 -> "E"
         [] avs_frame.start_code = 183 -> "V"
         [] OTHER -> HexTag(avs_frame.start_code)

\* `frames` after the unit
avs_frames_after(avs_frame, f) == IF avs_frame.is_frame THEN f + 1 ELSE f

\* `frame_rate` after the unit
avs_rate_after(avs_frame, rate) ==
  IF ~avs_frame.is_frame /\ avs_frame.start_code = 176
  THEN avs_frame_rate(avs_frame.frame_rate_code)
  ELSE rate

\* avs_minute with the minutes counted at the rate of the stream
avs_minute_by_rate(avs_frame, f, rate) ==
  IF avs_frame.is_frame /\ f % frames_per_minute(rate) = 0
  THEN << Minute(f \div frames_per_minute(rate)) >>
  ELSE << >>

\* the minute line printed after the character of a frame; f is `frames`
\* after the increment
avs_minute(avs_frame, f, rate) ==
  IF avs_frame.is_frame /\ f % frames_per_minute(rate) = 0
  THEN << Minute(f \div (25 * 60)) >>
  ELSE << >>

--------------------------------------------------------------------------
(* dots_by_access_unit: the character for an access unit.                 *)

\* all_slices_I / _P / _B of accessunit_fns.h: every slice of the primary
\* picture has that type
all_slices_I(au) == au.primary_present /\ au.slices = {"I"}
all_slices_P(au) == au.primary_present /\ au.slices = {"P"}
all_slices_B(au) == au.primary_present /\ au.slices = {"B"}

\* access_unit_str with the test for an IDR made before the test of
\* nal_ref_idc
access_unit_str_idr_first(au) ==
  IF ~au.primary_present
  THEN "_"
  ELSE IF au.nal_unit_type = NAL_IDR
  THEN (IF all_slices_I(au) THEN "D" ELSE "d")
  ELSE IF au.nal_ref_idc = 0
  THEN (IF all_slices_I(au) THEN "i"
        ELSE IF all_slices_P(au) THEN "p"
        ELSE IF all_slices_B(au) THEN "b"
        ELSE "x")
  ELSE IF au.nal_unit_type = NAL_NON_IDR
  THEN (IF all_slices_I(au) THEN "I"
        ELSE IF all_slices_P(au) THEN "P"
        ELSE IF all_slices_B(au) THEN "B"
        ELSE "X")
  ELSE "?"

access_unit_str(au) ==
  IF ~au.primary_present
  THEN "_"
  ELSE IF au.nal_ref_idc = 0
  THEN (IF all_slices_I(au) THEN "i"
        ELSE IF all_slices_P(au) THEN "p"
        ELSE IF all_slices_B(au) THEN "b"
        ELSE "x")
  ELSE IF au.nal_unit_type = NAL_IDR
  THEN (IF all_slices_I(au) THEN "D" ELSE "d")
  ELSE IF au.nal_unit_type = NAL_NON_IDR
  THEN (IF all_slices_I(au) THEN "I"
        ELSE IF all_slices_P(au) THEN "P"
        ELSE IF all_slices_B(au) THEN "B"
        ELSE "X")
  ELSE "?"

--------------------------------------------------------------------------
(* report_file_as_ES_dots: what the switch on what_data prints for a unit *)

\* avs_picture_coding_type(&unit) of avs_fns.h
avs_picture_coding_type(unit) == unit.avs_pct

\* ES_unit_h262_str with the "x" of h262_item_dot for an unknown picture
\* coding type
ES_unit_h262_str_x(unit) ==
  CASE unit.start_code = 0 ->
         CASE picture_coding_type_of(unit.data5) = 1 -> "i"
           [] picture_coding_type_of(unit.data5) = 2 -> "p"
           [] picture_coding_type_of(unit.data5) = 3 -> "b"
           [] picture_coding_type_of(unit.data5) = 4 -> "d"
           [] OTHER -> "x"
    [] unit.start_code = 176 -> "R"
    [] unit.start_code = 177 -> "R"
    [] unit.start_code = 178 -> "U"
    [] unit.start_code = 179 -> "["
    [] unit.start_code = 180 -> "X"
    [] unit.start_code = 181 -> "E"
    [] unit.start_code = 182 -> "R"
    [] unit.start_code = 183 -> "]"
    [] unit.start_code = 184 -> ">"
    [] OTHER ->
         IF unit.start_code >= 1 /\ unit.start_code <= 175
         THEN "_"
         ELSE "?"

ES_unit_h262_str(unit) ==
  CASE unit.start_code = 0 ->
         CASE picture_coding_type_of(unit.data5) = 1 -> "i"
           [] picture_coding_type_of(unit.data5) = 2 -> "p"
           [] picture_coding_type_of(unit.data5) = 3 -> "b"
           [] picture_coding_type_of(unit.data5) = 4 -> "d"
           [] OTHER -> "!"
    [] unit.start_code = 176 -> "R"
    [] unit.start_code = 177 -> "R"
    [] unit.start_code = 178 -> "U"
    [] unit.start_code = 179 -> "["
    [] unit.start_code = 180 -> "X"
    [] unit.start_code = 181 -> "E"
    [] unit.start_code = 182 -> "R"
    [] unit.start_code = 183 -> "]"
    [] unit.start_code = 184 -> ">"
    [] OTHER ->
         IF unit.start_code >= 1 /\ unit.start_code <= 175
         THEN "_"
         ELSE "?"

ES_unit_avs_str(unit) ==
  CASE unit.start_code = 179 -> "i"
    [] unit.start_code = 182 ->
         CASE avs_picture_coding_type(unit) = AVS_P_PICTURE_CODING -> "p"
           [] avs_picture_coding_type(unit) = AVS_B_PICTURE_CODING -> "b"
           [] OTHER -> "!"
    [] unit.start_code = 176 -> "["
    [] unit.start_code = 177 -> "]"
    [] unit.start_code = 178 -> "U"
    [] unit.start_code = 181 -> "E"
    [] unit.start_code = 183 -> "V"
    [] OTHER ->
         IF unit.start_code < 176 THEN "_" ELSE "?"

\* the printfs of one pass through the switch: nothing for VIDEO_H264
ES_unit_dot(what_data, unit) ==
  CASE what_data = VIDEO_H262 -> << Glyph(ES_unit_h262_str(unit)) >>
    [] what_data = VIDEO_H264 -> << >>
    [] what_data = VIDEO_AVS  -> << Glyph(ES_unit_avs_str(unit)) >>
    [] OTHER -> << >>

--------------------------------------------------------------------------
(* The legends of -verbose and the checks made before the first read.     *)

\* report_file_as_ES_dots up to its loop: what it prints, and whether it
\* has already returned 1
ES_preamble(what_data, verb) ==
  IF ~verb THEN << >>
  ELSE << Legend("ES unit") >> \o
       (CASE what_data = VIDEO_H262 ->
               << Legend("ES H.262"), Legend("ES something else") >>
          [] what_data = VIDEO_H264 ->
               << Complaint("-es is not yet supported for H.264") >>
          [] what_data = VIDEO_AVS ->
               << Legend("ES AVS"), Complaint("Unexpected type of data") >>
          [] OTHER ->
               << Complaint("Unexpected type of data") >>)

ES_preamble_fails(what_data, verb) == verb /\ what_data # VIDEO_H262

--------------------------------------------------------------------------
(* The tests that end the loops.                                          *)

h262_max_reached(m, n) == m > 0 /\ n >= m
avs_max_reached(m, n) == m > 0 /\ n >= m
au_max_reached(m, n) == m > 0 /\ n >= m
ES_max_reached(m, n) == m > 0 /\ n >= m

\* what each loop prints when it stops at the maximum
h262_max_message(n) == << >>
avs_max_message(n) == << Stopping("frames have been read", n) >>
au_max_message(n) == << Stopping("NAL units have been read", n) >>
ES_max_message(n) == << Stopping("ES units have been read", n) >>

\* the closing lines
h262_found(n) ==
  << Found(IF n = 1 THEN "MPEG2 item" ELSE "MPEG2 items", n, 0) >>
avs_found(f, n) ==
  << Found((IF f = 1 THEN "frame" ELSE "frames") \o " in " \o
           (IF n = 1 THEN "AVS item" ELSE "AVS items"), f, n) >>
au_found(nals, n) ==
  << Found((IF nals = 1 THEN "NAL unit" ELSE "NAL units") \o " in " \o
           (IF n = 1 THEN "access unit" ELSE "access units"), nals, n) >>
ES_found(n) ==
  << Found(IF n = 1 THEN "ES units" ELSE "ES unitss", n, 0) >>

\* dots_by_access_unit, "Did the logical stream end after the last access
\* unit?": what is printed, whether the loop is left, and the two flags of
\* the context afterwards
\* eos_printed with the "#" printed whether or not -hasheos was given
eos_printed_always_hash(eos, hash) ==
  IF ~eos THEN << >>
  ELSE IF hash THEN << Glyph("#") >>
  ELSE << Glyph("#"), Stopping("found end-of-stream NAL unit", 0) >>

eos_printed(eos, hash) ==
  IF ~eos THEN << >>
  ELSE IF hash THEN << Glyph("#") >>
  ELSE << Stopping("found end-of-stream NAL unit", 0) >>

eos_break(eos, hash) == eos /\ ~hash

\* eos_flag_after without the reset of context->end_of_stream
eos_flag_after_kept(eos, hash) == eos

eos_flag_after(eos, hash) == IF eos /\ hash THEN FALSE ELSE eos

eos_no_more_data_after(eos, hash, nmd) == IF eos /\ hash THEN FALSE ELSE nmd

--------------------------------------------------------------------------
(* The inputs.                                                            *)

\* all sequences over U of length at most n
SeqsUpTo(U, n) == UNION { [1 .. k -> U] : k \in 0 .. n }

\* a few units of each kind, for the runs of up to MaxLen units
SomeH262Items ==
  { H262Item(179, 0), H262Item(0, 1), H262Item(0, 2), H262Item(1, 0),
    H262Item(183, 0) }

SomeAvsFrames ==
  { AvsFrame(FALSE, AVS_I_PICTURE_CODING, 176, 6),
    AvsFrame(TRUE, AVS_I_PICTURE_CODING, 179, 0),
    AvsFrame(TRUE, AVS_P_PICTURE_CODING, 182, 0),
    AvsFrame(FALSE, AVS_I_PICTURE_CODING, 177, 0),
    AvsFrame(FALSE, AVS_I_PICTURE_CODING, 180, 0) }

SomeAccessUnits ==
  { AccessUnit(FALSE, 0, NAL_NON_IDR, {}, 1, FALSE),
    AccessUnit(TRUE, 3, NAL_IDR, {"I"}, 2, FALSE),
    AccessUnit(TRUE, 2, NAL_NON_IDR, {"P"}, 1, TRUE),
    AccessUnit(TRUE, 0, NAL_NON_IDR, {"B"}, 1, FALSE),
    AccessUnit(TRUE, 1, NAL_IDR, {"I", "P"}, 2, TRUE) }

SomeESUnits ==
  { ESUnit(0, 8, AVS_I_PICTURE_CODING), ESUnit(0, 16, AVS_I_PICTURE_CODING),
    ESUnit(179, 0, AVS_I_PICTURE_CODING), ESUnit(1, 0, AVS_I_PICTURE_CODING),
    ESUnit(182, 0, AVS_P_PICTURE_CODING) }

\* [sequence header, I picture, P picture, group start, B picture,
\*  sequence end]
H262Scenario ==
  << H262Item(179, 0), H262Item(0, 1), H262Item(0, 2), H262Item(184, 0),
     H262Item(0, 3), H262Item(183, 0) >>

\* [sequence header, I frame, P frame, sequence end]
AvsScenario ==
  << AvsFrame(FALSE, AVS_I_PICTURE_CODING, 176, 3),
     AvsFrame(TRUE, AVS_I_PICTURE_CODING, 179, 0),
     AvsFrame(TRUE, AVS_P_PICTURE_CODING, 182, 0),
     AvsFrame(FALSE, AVS_I_PICTURE_CODING, 177, 0) >>

\* every unit of each kind, for the runs over a single unit
AllH262Items == { H262Item(sc, pct) : sc \in Byte, pct \in 0 .. 7 }

AvsCodingTypes ==
  { AVS_I_PICTURE_CODING, AVS_P_PICTURE_CODING, AVS_B_PICTURE_CODING,
    "other" }

AllAvsFrames ==
  { AvsFrame(TRUE, pct, sc, 0) : pct \in AvsCodingTypes, sc \in {179, 182} }
  \cup { AvsFrame(FALSE, AVS_I_PICTURE_CODING, sc, 0) : sc \in Byte \ {176} }
  \cup { AvsFrame(FALSE, AVS_I_PICTURE_CODING, 176, frc) : frc \in 1 .. 8 }

SliceTypes == { "P", "B", "I", "SP", "SI" }
NalUnitTypes == { NAL_NON_IDR, NAL_IDR, "NAL_PARTITION_A", "NAL_SEI" }

AllAccessUnits ==
  { AccessUnit(FALSE, 0, NAL_NON_IDR, s, n, e) :
      s \in { {}, {"I"} }, n \in 1 .. 2, e \in BOOLEAN }
  \cup UNION { { AccessUnit(TRUE, r, t, s, 1, e) :
                   r \in 0 .. 3, t \in NalUnitTypes, e \in BOOLEAN } :
               s \in (SUBSET SliceTypes) \ { {} } }

AllESUnits(what_data) ==
  CASE what_data = VIDEO_H262 ->
         { ESUnit(sc, d5, AVS_I_PICTURE_CODING) : sc \in Byte, d5 \in Byte }
    [] what_data = VIDEO_AVS ->
         { ESUnit(sc, 0, pct) : sc \in Byte, pct \in AvsCodingTypes }
    [] OTHER ->
         { ESUnit(sc, 0, AVS_I_PICTURE_CODING) : sc \in Byte }

\* the bounded runs: every stream of up to MaxLen of the few units, and
\* the two longer scenarios
BoundedStreams(es, what_data) ==
  IF es THEN SeqsUpTo(SomeESUnits, MaxLen)
  ELSE CASE what_data = VIDEO_H262 ->
              SeqsUpTo(SomeH262Items, MaxLen) \cup { H262Scenario }
         [] what_data = VIDEO_H264 -> SeqsUpTo(SomeAccessUnits, MaxLen)
         [] what_data = VIDEO_AVS ->
              SeqsUpTo(SomeAvsFrames, MaxLen) \cup { AvsScenario }

\* the runs over one unit, any unit
SingleUnitStreams(es, what_data) ==
  IF es THEN { << u >> : u \in AllESUnits(what_data) }
  ELSE CASE what_data = VIDEO_H262 -> { << u >> : u \in AllH262Items }
         [] what_data = VIDEO_H264 -> { << u >> : u \in AllAccessUnits }
         [] what_data = VIDEO_AVS  -> { << u >> : u \in AllAvsFrames }

\* a long MPEG-2 stream: a sequence header and then pictures, I, P and B
\* in turn
LongH262Stream ==
  [ i \in 1 .. LongLen |->
      IF i = 1 THEN H262Item(179, 0) ELSE H262Item(0, 1 + (i % 3)) ]

\* a long AVS stream of frames whose first unit is a sequence header with
\* frame rate code frc (user data when frc = 0), with a second sequence
\* header of code frc2 as unit `at` (none when at = 0)
LongAvsStream(frc, at, frc2) ==
  [ i \in 1 .. LongLen |->
      IF i = 1
      THEN (IF frc = 0 THEN AvsFrame(FALSE, AVS_I_PICTURE_CODING, 178, 0)
            ELSE AvsFrame(FALSE, AVS_I_PICTURE_CODING, 176, frc))
      ELSE IF i = at
      THEN AvsFrame(FALSE, AVS_I_PICTURE_CODING, 176, frc2)
      ELSE IF i % 2 = 0
      THEN AvsFrame(TRUE, AVS_I_PICTURE_CODING, 179, 0)
      ELSE AvsFrame(TRUE, AVS_P_PICTURE_CODING, 182, 0) ]

\* the long runs: for AVS, no sequence header; 24000/1001 frames a
\* second; 50 frames a second replaced by 24000/1001 after 998 frames
LongStreams(what_data) ==
  CASE what_data = VIDEO_H262 -> { LongH262Stream }
    [] what_data = VIDEO_AVS ->
         { LongAvsStream(0, 0, 0), LongAvsStream(1, 0, 0),
           LongAvsStream(6, 1000, 1) }
    [] OTHER -> { }

--------------------------------------------------------------------------
(* main has read its switches and opened the input (src/esdots.c:702).    *)

Init ==
  /\ want_ES \in BOOLEAN
  /\ is_data \in { VIDEO_H262, VIDEO_H264, VIDEO_AVS }
  /\ \/ /\ max \in 0 .. MaxMax
        /\ verbose \in BOOLEAN
        /\ hash_eos \in BOOLEAN
        /\ stream \in BoundedStreams(want_ES, is_data)
        /\ ending \in { "EOF", "ERR" }
     \/ /\ max = 0
        /\ verbose = FALSE
        /\ hash_eos \in (IF ~want_ES /\ is_data = VIDEO_H264
                         THEN BOOLEAN ELSE { FALSE })
        /\ stream \in SingleUnitStreams(want_ES, is_data)
        /\ ending = "EOF"
     \/ /\ ~want_ES
        /\ max = 0
        /\ verbose = FALSE
        /\ hash_eos = FALSE
        /\ stream \in LongStreams(is_data)
        /\ ending = "EOF"
  /\ pc = "main"
  /\ err = 0
  /\ exit_code = -1
  /\ out = << >>
  /\ count = 0
  /\ frames = 0
  /\ dot_frames = 0
  /\ frame_rate = << 25, 1 >>
  /\ access_unit_count = 0
  /\ nac_count = 0
  /\ end_of_stream = FALSE
  /\ no_more_data = FALSE
  /\ fetches = 0
  /\ hist = << >>
  /\ first = << >>

options == << want_ES, is_data, max, verbose, hash_eos, ending >>

--------------------------------------------------------------------------
(* main, from the choice of reporting function to the first read.         *)

\* the function returns `e` having printed `printed`
Return(e, printed) ==
  /\ out' = out \o printed
  /\ err' = e
  /\ pc' = "returned"

\* h262_read_failed with the error taken for the end of the data (a
\* `break` where the source returns)
h262_read_failed_as_eof(e) == Return(0, h262_found(count))

\* what each loop does when its reader returns an error `e`
h262_read_failed(e) ==
  Return(e, << Complaint("Error copying NAL units") >>)

avs_read_failed == Return(1, << >>)
au_read_failed == Return(1, << >>)
ES_read_failed == Return(1, << >>)

main_call ==
  /\ pc = "main"
  /\ IF want_ES
     THEN IF ES_preamble_fails(is_data, verbose)
          THEN Return(1, ES_preamble(is_data, verbose))
          ELSE /\ out' = out \o ES_preamble(is_data, verbose)
               /\ pc' = "es"
               /\ err' = err
     ELSE IF is_data = VIDEO_H262
     THEN /\ out' = out \o (IF verbose THEN << Legend("H.262 item") >>
                            ELSE << >>)
          /\ pc' = "h262"
          /\ err' = err
     ELSE \E build_err \in { 0, 1 } :
            IF build_err # 0
            THEN Return(build_err,
                        IF ~verbose THEN << >>
                        ELSE IF is_data = VIDEO_H264
                        THEN << Legend("access unit") >>
                        ELSE << Legend("AVS item") >>)
            ELSE /\ out' = out \o
                      (IF ~verbose THEN << >>
                       ELSE IF is_data = VIDEO_H264
                       THEN << Legend("access unit") >>
                       ELSE << Legend("AVS item") >>)
                 /\ pc' = IF is_data = VIDEO_H264 THEN "h264" ELSE "avs"
                 /\ err' = err
  /\ UNCHANGED first
  /\ UNCHANGED << options, stream, exit_code, count, frames, dot_frames,
                  frame_rate, access_unit_count, nac_count, end_of_stream,
                  no_more_data, fetches, hist >>

--------------------------------------------------------------------------
(* One pass of the loop of report_h262_file_as_dots.                      *)

report_h262_file_as_dots ==
  /\ pc = "h262"
  /\ fetches' = fetches + 1
  /\ IF stream = << >>
     THEN /\ IF ending = "EOF"
             THEN Return(0, h262_found(count))
             ELSE \E e \in ErrCodes : h262_read_failed(e)
          /\ UNCHANGED << stream, hist, count, dot_frames >>
     ELSE LET item == Head(stream)
              n    == count + 1
              dots == h262_item_dot(item, dot_frames)
          IN  /\ stream' = Tail(stream)
              /\ hist' = Append(hist, item)
              /\ count' = n
              /\ dot_frames' = h262_item_frames(item, dot_frames)
              /\ IF h262_max_reached(max, n)
                 THEN Return(0, dots \o h262_max_message(n) \o h262_found(n))
                 ELSE /\ out' = out \o dots
                      /\ UNCHANGED << pc, err >>
  /\ UNCHANGED first
  /\ UNCHANGED << options, exit_code, frames, frame_rate, access_unit_count,
                  nac_count, end_of_stream, no_more_data >>

--------------------------------------------------------------------------
(* One pass of the loop of report_avs_file_as_dots.                       *)

report_avs_file_as_dots ==
  /\ pc = "avs"
  /\ fetches' = fetches + 1
  /\ IF stream = << >>
     THEN /\ IF ending = "EOF"
             THEN Return(0, avs_found(frames, count))
             ELSE avs_read_failed
          /\ UNCHANGED << stream, hist, count, frames, frame_rate >>
     ELSE LET avs_frame == Head(stream)
              f    == avs_frames_after(avs_frame, frames)
              n    == count + 1
              dots == << Glyph(avs_frame_str(avs_frame)) >> \o
                      avs_minute(avs_frame, f, frame_rate)
          IN  /\ stream' = Tail(stream)
              /\ hist' = Append(hist, avs_frame)
              /\ frames' = f
              /\ count' = n
              /\ frame_rate' = avs_rate_after(avs_frame, frame_rate)
              /\ IF avs_max_reached(max, f)
                 THEN Return(0, dots \o avs_max_message(f) \o avs_found(f, n))
                 ELSE /\ out' = out \o dots
                      /\ UNCHANGED << pc, err >>
  /\ UNCHANGED first
  /\ UNCHANGED << options, exit_code, dot_frames, access_unit_count,
                  nac_count, end_of_stream, no_more_data >>

--------------------------------------------------------------------------
(* One pass of the loop of dots_by_access_unit.                           *)

\* get_next_h264_frame: nothing more is read once the context says the
\* stream has ended or has no more data
h264_reader_result ==
  IF end_of_stream \/ no_more_data THEN "EOF"
  ELSE IF stream = << >> THEN ending
  ELSE "OK"

dots_by_access_unit ==
  /\ pc = "h264"
  /\ fetches' = fetches + 1
  /\ IF h264_reader_result # "OK"
     THEN /\ IF h264_reader_result = "EOF"
             THEN /\ Return(0, au_found(nac_count, access_unit_count))
                  /\ no_more_data' = TRUE
             ELSE /\ au_read_failed
                  /\ UNCHANGED no_more_data
          /\ UNCHANGED << stream, hist, access_unit_count, nac_count,
                          end_of_stream >>
     ELSE LET access_unit == Head(stream)
              nals == nac_count + access_unit.nals
              eos  == access_unit.eos
              n    == access_unit_count + 1
              dots == << Glyph(access_unit_str(access_unit)) >> \o
                      eos_printed(eos, hash_eos)
          IN  /\ stream' = Tail(stream)
              /\ hist' = Append(hist, access_unit)
              /\ nac_count' = nals
              /\ access_unit_count' = n
              /\ end_of_stream' = eos_flag_after(eos, hash_eos)
              /\ no_more_data' =
                   eos_no_more_data_after(eos, hash_eos, no_more_data)
              /\ IF eos_break(eos, hash_eos)
                 THEN Return(0, dots \o au_found(nals, n))
                 ELSE IF au_max_reached(max, nals)
                 THEN Return(0, dots \o au_max_message(nals) \o
                                au_found(nals, n))
                 ELSE /\ out' = out \o dots
                      /\ UNCHANGED << pc, err >>
  /\ UNCHANGED first
  /\ UNCHANGED << options, exit_code, count, frames, dot_frames, frame_rate >>

--------------------------------------------------------------------------
(* One pass of the loop of report_file_as_ES_dots.                        *)

report_file_as_ES_dots ==
  /\ pc = "es"
  /\ fetches' = fetches + 1
  /\ IF stream = << >>
     THEN /\ IF ending = "EOF"
             THEN Return(0, ES_found(count))
             ELSE ES_read_failed
          /\ UNCHANGED << stream, hist, count >>
     ELSE LET unit == Head(stream)
              n    == count + 1
              dots == ES_unit_dot(is_data, unit)
          IN  /\ stream' = Tail(stream)
              /\ hist' = Append(hist, unit)
              /\ count' = n
              /\ IF ES_max_reached(max, n)
                 THEN Return(0, dots \o ES_max_message(n) \o ES_found(n))
                 ELSE /\ out' = out \o dots
                      /\ UNCHANGED << pc, err >>
  /\ UNCHANGED first
  /\ UNCHANGED << options, exit_code, frames, dot_frames, frame_rate,
                  access_unit_count, nac_count, end_of_stream, no_more_data >>

--------------------------------------------------------------------------
(* main, after the reporting function has returned.                       *)

main_exit ==
  /\ pc = "returned"
  /\ pc' = "exit"
  /\ IF err # 0
     THEN /\ out' = Append(out, Complaint("Error producing 'dots'"))
          /\ exit_code' = 1
     ELSE \E close_err \in { 0, 1 } :
            IF close_err # 0
            THEN /\ out' = Append(out, Complaint("Error closing input file"))
                 /\ exit_code' = 1
            ELSE /\ out' = out
                 /\ exit_code' = 0
  /\ UNCHANGED first
  /\ UNCHANGED << options, stream, err, count, frames, dot_frames,
                  frame_rate, access_unit_count, nac_count, end_of_stream,
                  no_more_data, fetches, hist >>

--------------------------------------------------------------------------

Next ==
  \/ main_call
  \/ report_h262_file_as_dots
  \/ report_avs_file_as_dots
  \/ dots_by_access_unit
  \/ report_file_as_ES_dots
  \/ main_exit

Spec == Init /\ [][Next]_vars

--------------------------------------------------------------------------
(* Two runs on the same input: the program is run without -verbose, and   *)
(* when its reporting function has returned it is started again, as a new *)
(* process, with -verbose and everything else as it was.                  *)

IsLegend(item) == item.kind = "legend"

\* build_access_unit_context or build_avs_context failed: the function
\* returned before its first read
BuildFailed ==
  /\ ~want_ES
  /\ is_data # VIDEO_H262
  /\ pc \in { "returned", "exit" }
  /\ fetches = 0

\* what a run did: the calls of the reader and the units it delivered,
\* everything printed but the legend, the counters, and whether the
\* function returned zero (all that main looks at)
Observation ==
  [ fetches |-> fetches,
    units |-> hist,
    printed |-> SelectSeq(out, LAMBDA item : ~IsLegend(item)),
    counters |-> << count, frames, access_unit_count, nac_count >>,
    failed |-> err # 0,
    build_failed |-> BuildFailed ]

run_again_verbose ==
  /\ pc = "returned"
  /\ ~verbose
  /\ first = << >>
  /\ first' = << Observation >>
  /\ verbose' = TRUE
  /\ stream' = hist \o stream
  /\ pc' = "main"
  /\ err' = 0
  /\ exit_code' = -1
  /\ out' = << >>
  /\ count' = 0
  /\ frames' = 0
  /\ dot_frames' = 0
  /\ frame_rate' = << 25, 1 >>
  /\ access_unit_count' = 0
  /\ nac_count' = 0
  /\ end_of_stream' = FALSE
  /\ no_more_data' = FALSE
  /\ fetches' = 0
  /\ hist' = << >>
  /\ UNCHANGED << want_ES, is_data, max, hash_eos, ending >>

NextAgain ==
  \/ main_call
  \/ report_h262_file_as_dots
  \/ report_avs_file_as_dots
  \/ dots_by_access_unit
  \/ report_file_as_ES_dots
  \/ main_exit
  \/ run_again_verbose

SpecAgain == Init /\ [][NextAgain]_vars

--------------------------------------------------------------------------
(* Reading the output and the history.                                    *)

\* s with f applied to each element
MapSeq(f(_), s) == [ i \in 1 .. Len(s) |-> f(s[i]) ]

IsGlyph(item) == item.kind = "glyph"
IsHash(item) == item.kind = "glyph" /\ item.text = "#"
IsDot(item) == item.kind = "glyph" /\ item.text # "#"
IsFound(item) == item.kind = "found"
IsStopping(item) == item.kind = "stopping"
IsMaxMessage(item) ==
  item.kind = "stopping" /\ item.text # "found end-of-stream NAL unit"

TextOf(item) == item.text

\* the characters printed, in order, with and without the "#" of -hasheos
GlyphsOf(o) == MapSeq(TextOf, SelectSeq(o, IsGlyph))
DotsOf(o) == MapSeq(TextOf, SelectSeq(o, IsDot))

Has(o, P(_)) == \E i \in 1 .. Len(o) : P(o[i])

NotEmpty(s) == s # ""

\* which loop the run is for
RunsH262 == ~want_ES /\ is_data = VIDEO_H262
RunsAVS == ~want_ES /\ is_data = VIDEO_AVS
RunsAU == ~want_ES /\ is_data = VIDEO_H264
RunsES == want_ES

Returned == pc \in { "returned", "exit" }

--------------------------------------------------------------------------
(* C1: the decision tree of the access-unit characters.                   *)

C1_Tree(prim, is_ref, type, slices) ==
  IF ~prim THEN "_"
  ELSE IF ~is_ref
  THEN (CASE slices = {"I"} -> "i" [] slices = {"P"} -> "p"
          [] slices = {"B"} -> "b" [] OTHER -> "x")
  ELSE IF type = NAL_IDR
  THEN (IF slices = {"I"} THEN "D" ELSE "d")
  ELSE IF type = NAL_NON_IDR
  THEN (CASE slices = {"I"} -> "I" [] slices = {"P"} -> "P"
          [] slices = {"B"} -> "B" [] OTHER -> "X")
  ELSE "?"

C1_Glyph(au) ==
  C1_Tree(au.primary_present, au.nal_ref_idc # 0, au.nal_unit_type, au.slices)

\* C1: in access-unit mode the characters printed (the "#" of -hasheos
\* aside) are, unit by unit, those of the decision tree: no primary NAL
\* unit "_"; non-reference i/p/b/x; IDR D/d; non-IDR reference I/P/B/X;
\* any other kind "?" -- a function of (primary present, reference flag,
\* NAL kind, slice-type set) alone.
C1_AccessUnitGlyph ==
  RunsAU => DotsOf(out) = MapSeq(C1_Glyph, hist)

\* a non-reference IDR access unit whose slices are of mixed type has been
\* classified: the reference test comes before the IDR test
C1_Witness ==
  /\ RunsAU
  /\ Len(hist) = 1
  /\ hist[1].primary_present
  /\ hist[1].nal_ref_idc = 0
  /\ hist[1].nal_unit_type = NAL_IDR
  /\ hist[1].slices = {"I", "P"}
  /\ DotsOf(out) = << "x" >>

--------------------------------------------------------------------------
(* C2: the characters of MPEG-2 item mode.                                *)

C2_Table(sc, pct) ==
  CASE sc = 0 -> (CASE pct = 1 -> "i" [] pct = 2 -> "p" [] pct = 3 -> "b"
                    [] pct = 4 -> "d" [] OTHER -> "x")
    [] sc \in { 176, 177, 182 } -> "R"
    [] sc = 178 -> "U"
    [] sc = 179 -> "["
    [] sc = 180 -> "X"
    [] sc = 181 -> "E"
    [] sc = 183 -> "]"
    [] sc = 184 -> ">"
    [] sc \in 1 .. 175 -> ""
    [] sc \in 185 .. 255 -> "?"

C2_Glyph(item) == C2_Table(item.start_code, item.picture_coding_type)

\* C2: in MPEG-2 item mode the characters printed are, item by item, those
\* of the rule table, slices (0x01..0xAF) printing nothing; and the stream
\* [sequence header, I, P, group start, B, sequence end], read to its end,
\* prints "[", "i", "p", ">", "b", "]" and reports 6 MPEG2 items.
C2_H262ItemGlyph ==
  RunsH262 =>
    /\ DotsOf(out) = SelectSeq(MapSeq(C2_Glyph, hist), NotEmpty)
    /\ (hist = H262Scenario /\ Returned /\ err = 0) =>
         /\ GlyphsOf(out) = << "[", "i", "p", ">", "b", "]" >>
         /\ SelectSeq(out, IsFound) = << Found("MPEG2 items", 6, 0) >>

\* the scenario has been read to its end and the program has exited
C2_Witness ==
  /\ RunsH262
  /\ hist = H262Scenario
  /\ pc = "exit"
  /\ exit_code = 0

--------------------------------------------------------------------------
(* C3: the characters and the counters of AVS mode.                       *)

\* the tag of a start code of two hexadecimal digits
C3_Tag(sc) ==
  LET digits == << "0", "1", "2", "3", "4", "5", "6", "7",
                   "8", "9", "a", "b", "c", "d", "e", "f" >>
  IN  "<" \o digits[(sc \div 16) + 1] \o digits[(sc % 16) + 1] \o ">"

C3_Glyph(u) ==
  IF u.is_frame
  THEN (CASE u.picture_coding_type = AVS_I_PICTURE_CODING -> "i"
          [] u.picture_coding_type = AVS_P_PICTURE_CODING -> "p"
          [] u.picture_coding_type = AVS_B_PICTURE_CODING -> "b"
          [] OTHER -> "!")
  ELSE CASE u.start_code < 176 -> "_"
         [] u.start_code = 176 -> "["
         [] u.start_code = 177 -> "]"
         [] u.start_code = 178 -> "U"
         [] u.start_code = 181 -> "E"
         [] u.start_code = 183 -> "V"
         [] OTHER -> C3_Tag(u.start_code)

C3_IsFrame(u) == u.is_frame
C3_IsHeader(u) == ~u.is_frame /\ u.start_code = 176

\* the rate in force: that of the last sequence header, 25 before any
C3_Rate(h) ==
  IF SelectSeq(h, C3_IsHeader) = << >> THEN << 25, 1 >>
  ELSE LET hs == SelectSeq(h, C3_IsHeader)
       IN  avs_frame_rate(hs[Len(hs)].frame_rate_code)

--------------------------------------------------------------------------
(* What the next call of the reader would return, and the counter each    *)
(* loop compares with -max.                                               *)

InLoop == pc \in { "h262", "avs", "h264", "es" }

ReaderResult ==
  IF pc = "h264" THEN h264_reader_result
  ELSE IF stream = << >> THEN ending
  ELSE "OK"

FamilyCounter ==
  IF want_ES THEN count
  ELSE CASE is_data = VIDEO_H262 -> count
         [] is_data = VIDEO_AVS  -> frames
         [] is_data = VIDEO_H264 -> nac_count

IsEosMessage(item) ==
  item.kind = "stopping" /\ item.text = "found end-of-stream NAL unit"

EndsWithFound(o) == o # << >> /\ IsFound(o[Len(o)])

--------------------------------------------------------------------------
(* C4: the end-of-stream flag in access-unit mode.                        *)

\* C4: when reading an access unit has set the end-of-stream flag: with
\* -hasheos the loop prints "#" after the unit's character, clears
\* end_of_stream and no_more_data, prints no end-of-stream message, leaves
\* the loop only if the maximum is reached, and the reader then delivers
\* the following access unit; without -hasheos it prints the end-of-stream
\* message and returns 0 at that unit. Once the function has returned, the
\* reader is not called again.
C4_EosPolicy ==
  [][ /\ (pc = "h264" /\ h264_reader_result = "OK" /\ Head(stream).eos) =>
           IF hash_eos
           THEN /\ GlyphsOf(out') =
                     GlyphsOf(out) \o << C1_Glyph(Head(stream)), "#" >>
                /\ ~end_of_stream'
                /\ ~no_more_data'
                /\ ~Has(out', IsEosMessage)
                /\ pc' = "returned" => (max > 0 /\ nac_count' >= max)
                /\ (pc' = "h264" /\ stream' # << >>) =>
                     h264_reader_result' = "OK"
           ELSE /\ pc' = "returned"
                /\ err' = 0
                /\ hist' = Append(hist, Head(stream))
                /\ Has(out', IsEosMessage)
                /\ EndsWithFound(out')
                /\ GlyphsOf(out') =
                     GlyphsOf(out) \o << C1_Glyph(Head(stream)) >>
      /\ Returned => (fetches' = fetches /\ hist' = hist)
    ]_vars

\* with -hasheos, an access unit that set the flag has been followed by
\* "#" and the access unit after it has been read and classified
C4_Witness ==
  /\ RunsAU
  /\ hash_eos
  /\ Len(hist) = 2
  /\ hist[1].eos
  /\ ~hist[2].eos
  /\ GlyphsOf(out) = << "P", "#", "D" >>

--------------------------------------------------------------------------
(* C5: stopping at the maximum.                                           *)

\* C5: with max > 0, once a unit has been processed and the loop's counter
\* (frames for AVS, NAL units for H.264, items for MPEG-2, units for -es)
\* is >= max, the function has stopped, has printed a "Stopping because"
\* message and the final summary, and has returned 0; with max <= 0 no run
\* is stopped by the limit.
C5_MaxStops ==
  /\ (max > 0 /\ hist # << >> /\ FamilyCounter >= max) =>
       /\ Returned
       /\ err = 0
       /\ Has(out, IsStopping)
       /\ Has(out, IsFound)
  /\ max <= 0 =>
       /\ ~Has(out, IsMaxMessage)
       /\ (Returned /\ err = 0 /\ stream # << >>) => Has(out, IsEosMessage)

\* the same for every loop but that of report_h262_file_as_dots
C5_MaxStopsElsewhere == ~RunsH262 => C5_MaxStops

--------------------------------------------------------------------------
(* C6: the maximum comes before the end of the data.                      *)

\* C6: once the limit holds after a unit, the reader is never called
\* again; and if that unit was also the last the reader could deliver,
\* the message of the maximum has been printed.
C6_Precedence ==
  (max > 0 /\ hist # << >> /\ FamilyCounter >= max) =>
    /\ fetches = Len(hist)
    /\ (stream = << >> /\ ending = "EOF") => Has(out, IsMaxMessage)

\* the part of C6 about the reader alone
C6_NoFurtherFetch ==
  (max > 0 /\ hist # << >> /\ FamilyCounter >= max) => fetches = Len(hist)

--------------------------------------------------------------------------
(* C7: errors of the reader.                                              *)

\* C7: when the reader returns an error the function returns non-zero at
\* once, printing no character and no summary and reading nothing more,
\* and main returns 1; when the reader returns EOF the function prints its
\* summary and returns 0.
C7_ErrorAborts ==
  [][ /\ (InLoop /\ ReaderResult = "ERR") =>
           /\ pc' = "returned"
           /\ err' # 0
           /\ GlyphsOf(out') = GlyphsOf(out)
           /\ ~Has(out', IsFound)
           /\ hist' = hist
      /\ (InLoop /\ ReaderResult = "EOF") =>
           /\ pc' = "returned"
           /\ err' = 0
           /\ Len(out') = Len(out) + 1
           /\ EndsWithFound(out')
      /\ Returned =>
           /\ fetches' = fetches
           /\ SelectSeq(out', IsFound) = SelectSeq(out, IsFound)
           /\ GlyphsOf(out') = GlyphsOf(out)
      /\ (pc = "returned" /\ err # 0) => exit_code' = 1
    ]_vars

\* the reader has failed after delivering a unit, and the program has
\* exited with 1 and without a summary
C7_Witness ==
  /\ ending = "ERR"
  /\ stream = << >>
  /\ Len(hist) >= 1
  /\ fetches = Len(hist) + 1
  /\ ~Has(out, IsFound)
  /\ pc = "exit"
  /\ exit_code = 1

--------------------------------------------------------------------------
(* C8: -es with H.264.                                                    *)

\* C8: with -es and H.264 data the function returns failure before any
\* unit is read, whatever the other switches, and the program exits
\* with 1.
C8_RejectsESH264 ==
  (want_ES /\ is_data = VIDEO_H264) =>
    /\ fetches = 0
    /\ Returned => err # 0
    /\ pc = "exit" => exit_code = 1

\* the same with -verbose
C8_RejectsESH264Verbose == verbose => C8_RejectsESH264

--------------------------------------------------------------------------
(* C9: the characters of -es on MPEG-2 data.                              *)

C9_Table(sc, coding_type) ==
  CASE sc = 0 -> (CASE coding_type = 1 -> "i" [] coding_type = 2 -> "p"
                    [] coding_type = 3 -> "b" [] coding_type = 4 -> "d"
                    [] coding_type \in { 0, 5, 6, 7 } -> "!")
    [] sc \in { 176, 177, 182 } -> "R"
    [] sc = 178 -> "U"
    [] sc = 179 -> "["
    [] sc = 180 -> "X"
    [] sc = 181 -> "E"
    [] sc = 183 -> "]"
    [] sc = 184 -> ">"
    [] sc \in 1 .. 175 -> "_"
    [] OTHER -> "?"

\* bits 3 to 5 of data[5]
C9_Glyph(unit) == C9_Table(unit.start_code, (unit.data5 \div 8) % 8)

--------------------------------------------------------------------------
(* C10: characters per unit.                                              *)

HashesOf(o) == Len(SelectSeq(o, IsHash))

\* C10, as claimed: no step prints more characters than it reads units
\* (one at most).
C10_AtMostOneGlyph ==
  [][ Len(GlyphsOf(out')) - Len(GlyphsOf(out)) <= Len(hist') - Len(hist)
    ]_vars

\* C10, amended: no step prints more characters for its unit than one
\* (for an AVS start code without a character, one tag), but in
\* access-unit mode with -hasheos a unit that set the end-of-stream flag
\* is followed by one "#" as well; nothing else prints a "#".
C10_AtMostOneDot ==
  [][ /\ Len(DotsOf(out')) - Len(DotsOf(out)) <= Len(hist') - Len(hist)
      /\ Len(hist') - Len(hist) <= 1
      /\ HashesOf(out') - HashesOf(out) <=
           (IF pc = "h264" /\ hash_eos /\ h264_reader_result = "OK" /\
               Head(stream).eos
            THEN 1 ELSE 0)
    ]_vars

\* with -hasheos one access unit has printed two characters
C10_Witness ==
  /\ RunsAU
  /\ hash_eos
  /\ Len(hist) = 1
  /\ hist[1].eos
  /\ GlyphsOf(out) = << "d", "#" >>

--------------------------------------------------------------------------
(* C11: what -verbose changes.                                            *)

\* C11: a run with -verbose does what the run without it did on the same
\* input (the reader and the context builders behaving alike): the same
\* calls of the reader and units, the same output after the legend, the
\* same counters, and the same zero or non-zero status.
C11_VerboseOnlyLegend ==
  (first # << >> /\ pc = "returned" /\
   first[1].build_failed = BuildFailed) =>
    Observation = first[1]

\* the same for every run but those of -es on H.264 or AVS data
C11_VerboseOnlyLegendElsewhere ==
  (~want_ES \/ is_data = VIDEO_H262) => C11_VerboseOnlyLegend

--------------------------------------------------------------------------
(* C12: the frame counters and the minute lines.                          *)

IsMinute(item) == item.kind = "minute"

\* what a step prints, and the minute lines among it
NewItems == SubSeq(out', Len(out) + 1, Len(out'))
NewMinutes == SelectSeq(NewItems, IsMinute)

\* a step that took a unit from the reader, and that unit
C12_Fetched == Len(hist') = Len(hist) + 1
C12_Unit == hist'[Len(hist')]

\* the unit is a picture (MPEG-2) or a frame (AVS)
C12_IsPicture(u) == IF RunsH262 THEN u.start_code = 0 ELSE u.is_frame

\* the counter of pictures of the run: the static `frames` of
\* h262_item_dot, the local `frames` of report_avs_file_as_dots
C12_Counter == IF RunsH262 THEN dot_frames ELSE frames

\* pictures to a minute line: 25*60, or for AVS (int)(rate*60) at the rate
\* of the last sequence header read, 25 before any
C12_Threshold ==
  IF RunsH262 THEN 25 * 60 ELSE (C3_Rate(hist)[1] * 60) \div C3_Rate(hist)[2]

\* the counter moves by one for a picture and by nothing otherwise
C12_Counts ==
  C12_Counter' = C12_Counter + (IF C12_IsPicture(C12_Unit) THEN 1 ELSE 0)

==========================================================================
